---- MODULE Spec2Model ----
(***************************************************************************)
(* Streaming session store of rust-polars/src/lib.rs: the process-wide     *)
(* registry STREAM_PROCESSORS, the handle counter NEXT_PROCESSOR_ID and    *)
(* the four JNI entry points initStreamProcessor, processCSVChunk,         *)
(* getStreamResults and closeStreamProcessor, called from several threads. *)
(*                                                                         *)
(* Text is a sequence of one-character strings, so that splitting,         *)
(* prefix tests and number parsing are computed and not assumed.  A Float  *)
(* is held in tenths (35 is 3.5); the inputs carry one fraction digit.     *)
(***************************************************************************)
EXTENDS Integers, Sequences, FiniteSets, TLC

\* ------------------------------------------------------------------ bounds
MaxHandle == 2      \* creates per run
MaxRows == 1        \* accumulated rows per session
SeqMaxHandle == 1   \* the same, for a single caller
SeqMaxRows == 2
DataMaxRows == 2    \* the same, for the callers that check the data path
FairMaxRows == 2    \* the same, for the callers under a fair scheduler
AppendMaxRows == 3  \* the same, for the callers that submit to one session

Threads == {"t1", "t2"}

\* ------------------------------------------------------------- text helper
Digits == <<"0", "1", "2", "3", "4", "5", "6", "7", "8", "9">>

IsDigit(c) == \E i \in 1..10 : Digits[i] = c

DigitVal(c) == (CHOOSE i \in 1..10 : Digits[i] = c) - 1

\* str.starts_with(prefix)
StartsWith(s, prefix) ==
    /\ Len(s) >= Len(prefix)
    /\ SubSeq(s, 1, Len(prefix)) = prefix

\* position of the first sep in s, 0 when there is none
RECURSIVE FindSep(_, _, _)
FindSep(s, sep, i) ==
    IF i > Len(s) THEN 0
    ELSE IF s[i] = sep THEN i
    ELSE FindSep(s, sep, i + 1)

\* str.split(sep).collect(): always at least one part
RECURSIVE Split(_, _)
Split(s, sep) ==
    LET k == FindSep(s, sep, 1) IN
    IF k = 0 THEN <<s>>
    ELSE <<SubSeq(s, 1, k - 1)>> \o Split(SubSeq(s, k + 1, Len(s)), sep)

AllDigits(s) == Len(s) > 0 /\ \A i \in 1..Len(s) : IsDigit(s[i])

RECURSIVE DigitsVal(_)
DigitsVal(s) ==
    IF Len(s) = 0 THEN 0
    ELSE 10 * DigitsVal(SubSeq(s, 1, Len(s) - 1)) + DigitVal(s[Len(s)])

\* an optionally signed run of digits
IsIntText(s) ==
    \/ AllDigits(s)
    \/ Len(s) > 1 /\ s[1] = "-" /\ AllDigits(Tail(s))

IntVal(s) == IF s[1] = "-" THEN 0 - DigitsVal(Tail(s)) ELSE DigitsVal(s)

\* digits "." digit
IsFloatText(s) ==
    /\ Len(s) >= 3
    /\ s[Len(s) - 1] = "."
    /\ IsDigit(s[Len(s)])
    /\ IsIntText(SubSeq(s, 1, Len(s) - 2))

\* tenths
FloatVal(s) ==
    LET whole == SubSeq(s, 1, Len(s) - 2)
        frac == DigitVal(s[Len(s)])
    IN IF whole[1] = "-" THEN 10 * IntVal(whole) - frac ELSE 10 * IntVal(whole) + frac

\* parts[2].parse::<f64>().unwrap_or(0.0), in tenths
ParseF64OrZero(s) ==
    IF IsIntText(s) THEN 10 * IntVal(s)
    ELSE IF IsFloatText(s) THEN FloatVal(s)
    ELSE 0

\* --------------------------------------------------------------- row values
\* serde_json::Value
JNull == [tag |-> "Null", n |-> 0, s |-> <<>>]
JInt(i) == [tag |-> "Int", n |-> i, s |-> <<>>]
JFloat(f) == [tag |-> "Float", n |-> f, s |-> <<>>]
JString(t) == [tag |-> "String", n |-> 0, s |-> t]

\* polars AnyValue
AvNull == [tag |-> "Null", n |-> 0, s |-> <<>>]
AvInt64(i) == [tag |-> "Int64", n |-> i, s |-> <<>>]
AvFloat64(f) == [tag |-> "Float64", n |-> f, s |-> <<>>]
AvUtf8(t) == [tag |-> "Utf8", n |-> 0, s |-> t]

\* ------------------------------------------------------------ chunk decoder
\* A chunk is a sequence of bytes: one-character strings, or InvalidByte for a
\* byte that is valid in no UTF-8 sequence.
InvalidByte == "0xFF"

\* String::from_utf8(chunk_bytes)
FromUtf8Ok(bytes) == \A i \in 1..Len(bytes) : bytes[i] # InvalidByte

\* the lines of a text, without the empty piece after a final line feed
TextLines(text) ==
    LET parts == Split(text, "\n") IN
    IF Len(parts[Len(parts)]) = 0 THEN SubSeq(parts, 1, Len(parts) - 1) ELSE parts

\* field i of a split line; a short line is padded with missing fields
FieldAt(fields, i) == IF i <= Len(fields) THEN fields[i] ELSE <<>>

\* schema inference of the reader over the non-empty fields of one column
InferDtype(fields) ==
    LET present == {i \in 1..Len(fields) : Len(fields[i]) > 0} IN
    IF present = {} THEN "Utf8"
    ELSE IF \A i \in present : IsIntText(fields[i]) THEN "Int64"
    ELSE IF \A i \in present : IsIntText(fields[i]) \/ IsFloatText(fields[i]) THEN "Float64"
    ELSE "Utf8"

\* one parsed cell of a column of the given dtype; an empty field is null
ParseCell(field, dtype) ==
    IF Len(field) = 0 THEN AvNull
    ELSE IF dtype = "Int64" THEN AvInt64(IntVal(field))
    ELSE IF dtype = "Float64" THEN
        AvFloat64(IF IsIntText(field) THEN 10 * IntVal(field) ELSE FloatVal(field))
    ELSE AvUtf8(field)

\* CsvReader::new(cursor).finish(): the text has a header line; no data line
\* has more fields than the header
CsvParseOk(text) ==
    LET lines == TextLines(text) IN
    /\ Len(lines) >= 1
    /\ Len(lines[1]) > 0
    /\ \A k \in 2..Len(lines) :
           Len(Split(lines[k], ",")) <= Len(Split(lines[1], ","))

\* the DataFrame of a parseable text: its columns in header order
CsvDataFrame(text) ==
    LET lines == TextLines(text)
        header == Split(lines[1], ",")
        nrows == Len(lines) - 1
        raw(c) == [r \in 1..nrows |-> FieldAt(Split(lines[r + 1], ","), c)]
    IN [c \in 1..Len(header) |->
           [name |-> header[c],
            dtype |-> InferDtype(raw(c)),
            values |-> [r \in 1..nrows |-> ParseCell(raw(c)[r], InferDtype(raw(c)))]]]

\* df.height()
Height(df) == IF Len(df) = 0 THEN 0 ELSE Len(df[1].values)

\* df.get_column_names()
ColumnNames(df) == [c \in 1..Len(df) |-> df[c].name]

\* the decoding prefix of process_csv_chunk_internal: the error it returns, or
\* the parsed DataFrame
DecodeChunk(bytes) ==
    IF ~FromUtf8Ok(bytes) THEN [ok |-> FALSE, err |-> "Invalid UTF-8 in chunk", df |-> <<>>]
    ELSE IF ~CsvParseOk(bytes) THEN [ok |-> FALSE, err |-> "CSV parse error", df |-> <<>>]
    ELSE [ok |-> TRUE, err |-> "", df |-> CsvDataFrame(bytes)]

\* ------------------------------------------------- typed column <-> row value
\* series_value_to_json: a null cell becomes the sentinel of its column type
SeriesValueToJson(series, row) ==
    LET v == series.values[row] IN
    IF series.dtype = "Utf8" THEN (IF v.tag = "Null" THEN JString(<<>>) ELSE JString(v.s))
    ELSE IF series.dtype = "Int64" THEN (IF v.tag = "Null" THEN JInt(0) ELSE JInt(v.n))
    ELSE IF series.dtype = "Float64" THEN (IF v.tag = "Null" THEN JFloat(0) ELSE JFloat(v.n))
    ELSE JString(<<"n", "u", "l", "l">>)

\* dataframe_to_json_vec: one map from column name to value per row
DataframeToJsonVec(df) ==
    [r \in 1..Height(df) |->
        [name \in {df[c].name : c \in 1..Len(df)} |->
            LET c == CHOOSE c \in 1..Len(df) : df[c].name = name
            IN SeriesValueToJson(df[c], r)]]

\* json_value_to_any_value
JsonValueToAnyValue(value) ==
    IF value.tag = "Null" THEN AvNull
    ELSE IF value.tag = "Int" THEN AvInt64(value.n)
    ELSE IF value.tag = "Float" THEN AvFloat64(value.n)
    ELSE IF value.tag = "String" THEN AvUtf8(value.s)
    ELSE AvUtf8(<<"n", "u", "l", "l">>)

\* ---------------------------------------------------------- materialization
\* the dtype Series::new infers from AnyValues: that of the first non-null one
SeriesDtype(values) ==
    LET present == {i \in 1..Len(values) : values[i].tag # "Null"} IN
    IF present = {} THEN "Null"
    ELSE values[CHOOSE i \in present : \A j \in present : i <= j].tag

\* Series::new is strict for text: a Utf8 series takes text and nulls only
SeriesBuildOk(values) ==
    SeriesDtype(values) = "Utf8" =>
        \A i \in 1..Len(values) : values[i].tag \in {"Utf8", "Null"}

\* one value of a series of the given dtype
CastValue(v, dtype) ==
    IF v.tag = "Null" \/ dtype = "Null" THEN AvNull
    ELSE IF dtype = "Int64" THEN
        (IF v.tag = "Int64" THEN v
         ELSE IF v.tag = "Float64" THEN AvInt64(v.n \div 10)
         ELSE IF IsIntText(v.s) THEN AvInt64(IntVal(v.s))
         ELSE AvNull)
    ELSE IF dtype = "Float64" THEN
        (IF v.tag = "Float64" THEN v
         ELSE IF v.tag = "Int64" THEN AvFloat64(10 * v.n)
         ELSE IF IsIntText(v.s) \/ IsFloatText(v.s) THEN AvFloat64(ParseF64OrZero(v.s))
         ELSE AvNull)
    ELSE v

\* Series::new(col_name, &values)
NewSeries(name, values) ==
    [name |-> name,
     dtype |-> SeriesDtype(values),
     values |-> [i \in 1..Len(values) |-> CastValue(values[i], SeriesDtype(values))]]

\* a row without the key gives 0: row.get(col_name).unwrap_or(&json!(0))
ColumnValues_zero(data, colName) ==
    [i \in 1..Len(data) |->
        JsonValueToAnyValue(IF colName \in DOMAIN data[i] THEN data[i][colName] ELSE JInt(0))]

\* the cells json_vec_to_dataframe collects for one column: a row without the
\* key gives Null
ColumnValues(data, colName) ==
    [i \in 1..Len(data) |->
        JsonValueToAnyValue(IF colName \in DOMAIN data[i] THEN data[i][colName] ELSE JNull)]

\* json_vec_to_dataframe(data, schema): DataFrame::empty() for no data;
\* columns is the schema, or the first row's keys in the map's order when the
\* schema is unset; ok is FALSE when Series::new panics
JsonVecToDataframe(data, columns) ==
    IF Len(data) = 0 THEN [ok |-> TRUE, df |-> <<>>]
    ELSE IF \E c \in 1..Len(columns) : ~SeriesBuildOk(ColumnValues(data, columns[c]))
    THEN [ok |-> FALSE, df |-> <<>>]
    ELSE [ok |-> TRUE,
          df |-> [c \in 1..Len(columns) |-> NewSeries(columns[c], ColumnValues(data, columns[c]))]]

\* ------------------------------------------------- deferred operation executor
HasColumn(df, name) == \E c \in 1..Len(df) : df[c].name = name

Column(df, name) == df[CHOOSE c \in 1..Len(df) : df[c].name = name]

\* the rows of df at the given positions, in that order
TakeRows(df, idx) ==
    [c \in 1..Len(df) |->
        [name |-> df[c].name,
         dtype |-> df[c].dtype,
         values |-> [k \in 1..Len(idx) |-> df[c].values[idx[k]]]]]

\* the members of a set of integers in ascending order
RECURSIVE Ascending(_)
Ascending(S) ==
    IF S = {} THEN <<>>
    ELSE LET m == CHOOSE x \in S : \A y \in S : x <= y
         IN <<m>> \o Ascending(S \ {m})

\* a numeric cell in tenths
Tenths(v) == IF v.tag = "Int64" THEN 10 * v.n ELSE v.n

\* df.lazy().filter(col(column).gt_eq(lit(min_value))).collect()
FilterGtEq(df, column, minValue) ==
    IF ~HasColumn(df, column) THEN [ok |-> FALSE, err |-> "ColumnNotFound", df |-> <<>>]
    ELSE IF Column(df, column).dtype \notin {"Int64", "Float64", "Null"}
    THEN [ok |-> FALSE, err |-> "ComputeError", df |-> <<>>]
    ELSE LET col == Column(df, column)
             keep == {r \in 1..Height(df) :
                         col.values[r].tag # "Null" /\ Tenths(col.values[r]) >= minValue}
         IN [ok |-> TRUE, err |-> "", df |-> TakeRows(df, Ascending(keep))]

RECURSIVE SumOver(_, _)
SumOver(values, S) ==
    IF S = {} THEN 0
    ELSE LET r == CHOOSE x \in S : TRUE
         IN (IF values[r].tag = "Null" THEN 0 ELSE values[r].n) + SumOver(values, S \ {r})

\* the distinct values of a column
GroupKeys(df, groupCol) ==
    {Column(df, groupCol).values[r] : r \in 1..Height(df)}

\* the aggregate taking one row of each group instead of summing the group
GroupBySum_first(df, groupCol, sumCol, keys) ==
    IF ~HasColumn(df, groupCol) \/ ~HasColumn(df, sumCol)
    THEN [ok |-> FALSE, err |-> "ColumnNotFound", df |-> <<>>]
    ELSE IF groupCol = sumCol \/ Column(df, sumCol).dtype \notin {"Int64", "Float64"}
    THEN [ok |-> FALSE, err |-> "ComputeError", df |-> <<>>]
    ELSE LET g == Column(df, groupCol)
             v == Column(df, sumCol)
             first(k) == CHOOSE r \in 1..Height(df) :
                             /\ g.values[r] = keys[k]
                             /\ \A q \in 1..Height(df) : g.values[q] = keys[k] => r <= q
         IN [ok |-> TRUE, err |-> "",
             df |-> << [name |-> groupCol, dtype |-> g.dtype,
                        values |-> [k \in 1..Len(keys) |-> keys[k]]],
                       [name |-> sumCol, dtype |-> v.dtype,
                        values |-> [k \in 1..Len(keys) |-> v.values[first(k)]]] >>]

\* df.lazy().group_by([col(group_col)]).agg([col(sum_col).sum()]).collect();
\* keys is the distinct group values in the order the engine emits them
GroupBySum(df, groupCol, sumCol, keys) ==
    IF ~HasColumn(df, groupCol) \/ ~HasColumn(df, sumCol)
    THEN [ok |-> FALSE, err |-> "ColumnNotFound", df |-> <<>>]
    ELSE IF groupCol = sumCol \/ Column(df, sumCol).dtype \notin {"Int64", "Float64"}
    THEN [ok |-> FALSE, err |-> "ComputeError", df |-> <<>>]
    ELSE LET g == Column(df, groupCol)
             v == Column(df, sumCol)
             members(k) == {r \in 1..Height(df) : g.values[r] = keys[k]}
             total(k) == [tag |-> v.dtype, n |-> SumOver(v.values, members(k)), s |-> <<>>]
         IN [ok |-> TRUE, err |-> "",
             df |-> << [name |-> groupCol, dtype |-> g.dtype,
                        values |-> [k \in 1..Len(keys) |-> keys[k]]],
                       [name |-> sumCol, dtype |-> v.dtype,
                        values |-> [k \in 1..Len(keys) |-> total(k)]] >>]

\* the sequences that list every member of S once
Perms(S) ==
    {p \in [1..Cardinality(S) -> S] : \A i, j \in 1..Cardinality(S) : i # j => p[i] # p[j]}

FilterPrefix == <<"f", "i", "l", "t", "e", "r", ":">>

GroupbyPrefix == <<"g", "r", "o", "u", "p", "b", "y", ":">>

\* the match with the length test left out: a short descriptor is an error
ApplyOperation_strict(df, operation, keys) ==
    LET parts == Split(operation, ":") IN
    IF StartsWith(operation, FilterPrefix) THEN
        (IF Len(parts) >= 3 THEN FilterGtEq(df, parts[2], ParseF64OrZero(parts[3]))
         ELSE [ok |-> FALSE, err |-> "ComputeError", df |-> <<>>])
    ELSE IF StartsWith(operation, GroupbyPrefix) THEN
        (IF Len(parts) >= 3 THEN GroupBySum(df, parts[2], parts[3], keys)
         ELSE [ok |-> FALSE, err |-> "ComputeError", df |-> <<>>])
    ELSE [ok |-> TRUE, err |-> "", df |-> df]

\* the match of get_stream_results_internal on the descriptor
ApplyOperation(df, operation, keys) ==
    LET parts == Split(operation, ":") IN
    IF StartsWith(operation, FilterPrefix) THEN
        (IF Len(parts) >= 3 THEN FilterGtEq(df, parts[2], ParseF64OrZero(parts[3]))
         ELSE [ok |-> TRUE, err |-> "", df |-> df])
    ELSE IF StartsWith(operation, GroupbyPrefix) THEN
        (IF Len(parts) >= 3 THEN GroupBySum(df, parts[2], parts[3], keys)
         ELSE [ok |-> TRUE, err |-> "", df |-> df])
    ELSE [ok |-> TRUE, err |-> "", df |-> df]

\* whether the descriptor runs the group-by branch on df, so that the engine
\* chooses the order of the groups
IsGroupBy(df, operation) ==
    /\ StartsWith(operation, GroupbyPrefix)
    /\ Len(Split(operation, ":")) >= 3
    /\ HasColumn(df, Split(operation, ":")[2])

\* the orders in which the engine may emit the groups
GroupOrders(df, operation) ==
    IF IsGroupBy(df, operation) THEN Perms(GroupKeys(df, Split(operation, ":")[2]))
    ELSE {<<>>}

\* dataframe_to_json: each row is a map from column name to value, written
\* out in the map's iteration order, which differs from map to map.  An
\* output is the sequence of rows, each row the <<name, value>> pairs as
\* written.
RowOrders(df) == Perms({df[c].name : c \in 1..Len(df)})

\* the ways one row can be written
RowTexts(df, r) ==
    {[i \in 1..Len(df) |-> <<o[i], SeriesValueToJson(Column(df, o[i]), r)>>] : o \in RowOrders(df)}

\* the outputs dataframe_to_json can return for df
DataframeToJson(df) ==
    {out \in [1..Height(df) -> UNION {RowTexts(df, r) : r \in 1..Height(df)}] :
        \A r \in 1..Height(df) : out[r] \in RowTexts(df, r)}

\* ------------------------------------------------------------------- inputs
\* the operation label given to initStreamProcessor
Labels == {<<"s", "u", "m">>}

ChunkBadUtf8 == <<"g", InvalidByte>>

ChunkEmpty == <<>>

\* g,v
ChunkHeaderOnly == <<"g", ",", "v", "\n">>

\* g,v / a,1
ChunkOneRow == <<"g", ",", "v", "\n", "a", ",", "1", "\n">>

\* g,v / a,1 / b,2
ChunkTwoRows == <<"g", ",", "v", "\n", "a", ",", "1", "\n", "b", ",", "2", "\n">>

\* v,g
ChunkOtherHeader == <<"v", ",", "g", "\n">>

\* g,v / ,1.5 / b,   a missing text cell and a missing number
ChunkNulls == <<"g", ",", "v", "\n", ",", "1", ".", "5", "\n", "b", ",", "\n">>

\* g,v / a,x   the column v as text
ChunkTextV == <<"g", ",", "v", "\n", "a", ",", "x", "\n">>

\* g,w / c,3   another header
ChunkDrift == <<"g", ",", "w", "\n", "c", ",", "3", "\n">>

Chunks == {ChunkBadUtf8, ChunkEmpty, ChunkHeaderOnly, ChunkOneRow, ChunkTwoRows,
           ChunkOtherHeader}

OpNone == <<>>

\* filter:v:2
OpFilter == <<"f", "i", "l", "t", "e", "r", ":", "v", ":", "2">>

\* groupby:g:v
OpGroupby == <<"g", "r", "o", "u", "p", "b", "y", ":", "g", ":", "v">>

\* filter:z:1, a column no chunk has
OpFilterMissing == <<"f", "i", "l", "t", "e", "r", ":", "z", ":", "1">>

\* filter:v, fewer than three parts
OpFilterShort == <<"f", "i", "l", "t", "e", "r", ":", "v">>

\* filter:v:0
OpFilterZero == <<"f", "i", "l", "t", "e", "r", ":", "v", ":", "0">>

\* groupby:g, fewer than three parts
OpGroupbyShort == <<"g", "r", "o", "u", "p", "b", "y", ":", "g">>

\* sum, neither prefix
OpOther == <<"s", "u", "m">>

Operations == {OpNone, OpFilter, OpGroupby, OpFilterMissing, OpFilterShort}

\* the handles a caller may pass: the last one is never returned by a create
HandlesUpTo(maxHandle) == 1..(maxHandle + 1)

\* -------------------------------------------------------------------- state
VARIABLES
    processors,     \* STREAM_PROCESSORS: handle -> StreamProcessor
    next_id,        \* NEXT_PROCESSOR_ID
    storeLock,      \* the thread holding STREAM_PROCESSORS, or NoThread
    counterLock,    \* the thread holding NEXT_PROCESSOR_ID, or NoThread
    pc,             \* where each thread is in its call
    arg,            \* processCSVChunk's handle and parsed chunk, per thread
    crashed,        \* a panic has unwound out of an entry point
    ret,            \* the call that returned in the last step, or NoRet
    issued,         \* history: the handles initStreamProcessor returned, in order
    progress,       \* history: per live session, the processed_rows summed, the
                    \* last total_accumulated returned, whether a submit has
                    \* succeeded, and the cells of the chunks as they were parsed
    prevGet,        \* history: an earlier getStreamResults return, see GetBody
    env             \* the callers: which threads call, and with which inputs

vars == <<processors, next_id, storeLock, counterLock, pc, arg, crashed, ret,
          issued, progress, prevGet, env>>

NoThread == "none"

\* static NEXT_PROCESSOR_ID: Mutex<jlong> = Mutex::new(1)
FirstProcessorId == 1

\* Option<Vec<String>>
SchemaNone == [some |-> FALSE, cols |-> <<>>]

SchemaSome(cols) == [some |-> TRUE, cols |-> cols]

NoArg == [bytes |-> <<>>, df |-> <<>>]

Returned(ok, err, out) == [ok |-> ok, err |-> err, out |-> out]

NoRet == [op |-> "none", id |-> 0, data |-> <<>>, ok |-> TRUE, err |-> "",
          processed |-> 0, total |-> 0, prev |-> 0, out |-> <<>>,
          again |-> FALSE, was |-> Returned(TRUE, "", <<>>)]

NoGet == [id |-> 0, operation |-> <<>>, result |-> Returned(TRUE, "", <<>>)]

InvalidProcessorId == "Invalid processor ID"

\* two threads calling concurrently
ConcurrentEnv ==
    [callers |-> Threads,
     chunks |-> {ChunkBadUtf8, ChunkEmpty, ChunkOneRow, ChunkOtherHeader},
     operations |-> {OpNone, OpFilterMissing},
     maxHandle |-> MaxHandle,
     maxRows |-> MaxRows,
     repeats |-> FALSE]

\* one thread calling, with every chunk and every descriptor
SequentialEnv ==
    [callers |-> {"t1"},
     chunks |-> Chunks,
     operations |-> Operations,
     maxHandle |-> SeqMaxHandle,
     maxRows |-> SeqMaxRows,
     repeats |-> TRUE]

\* one thread calling on one session, with the chunks and descriptors that
\* exercise decoding, materialization and the executor
DataEnv ==
    [callers |-> {"t1"},
     chunks |-> {ChunkOneRow, ChunkNulls, ChunkTextV, ChunkDrift},
     operations |-> {OpNone, OpFilter, OpFilterZero, OpGroupby, OpFilterShort,
                     OpGroupbyShort, OpOther},
     maxHandle |-> 1,
     maxRows |-> DataMaxRows,
     repeats |-> FALSE]

\* two threads calling concurrently on one session, with a chunk that fails to
\* decode and two chunks whose column v holds text in one and a number in the
\* other
FairEnv ==
    [callers |-> Threads,
     chunks |-> {ChunkBadUtf8, ChunkOneRow, ChunkTextV},
     operations |-> {OpNone},
     maxHandle |-> 1,
     maxRows |-> FairMaxRows,
     repeats |-> FALSE]

\* two threads submitting concurrently to one session, a chunk of two rows and
\* a chunk of one row under another header
AppendEnv ==
    [callers |-> Threads,
     chunks |-> {ChunkTwoRows, ChunkDrift},
     operations |-> {OpNone},
     maxHandle |-> 1,
     maxRows |-> AppendMaxRows,
     repeats |-> FALSE]

Start ==
    /\ processors = <<>>
    /\ next_id = FirstProcessorId
    /\ storeLock = NoThread
    /\ counterLock = NoThread
    /\ pc = [t \in Threads |-> "idle"]
    /\ arg = [t \in Threads |-> NoArg]
    /\ crashed = FALSE
    /\ ret = NoRet
    /\ issued = <<>>
    /\ progress = <<>>
    /\ prevGet = NoGet

Init == Start /\ env = ConcurrentEnv

InitSeq == Start /\ env = SequentialEnv

InitData == Start /\ env = DataEnv

InitFair == Start /\ env = FairEnv

InitAppend == Start /\ env = AppendEnv

\* --------------------------------------------------------- store operations
\* StreamProcessor { operation, accumulated_data: Vec::new(), schema: None }
NewProcessor(label) ==
    [operation |-> label, accumulated_data |-> <<>>, schema |-> SchemaNone]

\* the counter left as it is
NextId_stuck(n) == n

\* *next_id += 1
NextId(n) == n + 1

\* processors.insert(processor_id, processor)
Insert(procs, id, p) ==
    [h \in DOMAIN procs \cup {id} |-> IF h = id THEN p ELSE procs[h]]

\* processors.clear()
Remove_clear(procs, id) == <<>>

\* processors.remove(&processor_id)
Remove(procs, id) == [h \in DOMAIN procs \ {id} |-> procs[h]]

\* the schema never stored
StoreSchema_never(schema, df) == schema

\* the schema stored from every chunk
StoreSchema_overwrite(schema, df) == SchemaSome(ColumnNames(df))

\* if processor.schema.is_none() { processor.schema = Some(column names) }
StoreSchema(schema, df) ==
    IF ~schema.some THEN SchemaSome(ColumnNames(df)) ELSE schema

\* the chunk put in front of the rows already held
Extend_front(acc, chunk_json) == chunk_json \o acc

\* accumulated_data = chunk_json
Extend_overwrite(acc, chunk_json) == chunk_json

\* processor.accumulated_data.extend(chunk_json)
Extend(acc, chunk_json) == acc \o chunk_json

\* the session after the locked part of process_csv_chunk_internal
SessionAfterChunk(p, df) ==
    [p EXCEPT !.schema = StoreSchema(p.schema, df),
              !.accumulated_data = Extend(p.accumulated_data, DataframeToJsonVec(df))]

\* processors.entry(processor_id).or_default(): never None
FindProcessor_default(procs, id) ==
    [found |-> TRUE, p |-> IF id \in DOMAIN procs THEN procs[id] ELSE NewProcessor(<<>>)]

\* processors.get(&processor_id) and get_mut: the session, if there is one
FindProcessor(procs, id) ==
    IF id \in DOMAIN procs
    THEN [found |-> TRUE, p |-> procs[id]]
    ELSE [found |-> FALSE, p |-> NewProcessor(<<>>)]

\* an unknown handle is entered into the store before the error is returned
ProcessChunk_insert(procs, id, df) ==
    LET f == FindProcessor(procs, id) IN
    IF f.found
    THEN [ok |-> TRUE, procs |-> Insert(procs, id, SessionAfterChunk(f.p, df))]
    ELSE [ok |-> FALSE, procs |-> Insert(procs, id, NewProcessor(<<>>))]

\* get_mut(..).ok_or_else(..)? and the update that follows it
ProcessChunk(procs, id, df) ==
    LET f == FindProcessor(procs, id) IN
    IF f.found
    THEN [ok |-> TRUE, procs |-> Insert(procs, id, SessionAfterChunk(f.p, df))]
    ELSE [ok |-> FALSE, procs |-> procs]

\* processor.accumulated_data.len() in the progress string
TotalAccumulated(p) == Len(p.accumulated_data)

\* the rows taken out of the session: std::mem::take(&mut accumulated_data)
StoreAfterGet_drain(procs, id) ==
    IF id \in DOMAIN procs THEN [procs EXCEPT ![id].accumulated_data = <<>>] ELSE procs

\* the session taken out of the store: processors.remove(&processor_id)
StoreAfterGet_remove(procs, id) == [h \in DOMAIN procs \ {id} |-> procs[h]]

\* processors.get(&processor_id): a shared borrow, the store stays as it is
StoreAfterGet(procs, id) == procs

\* the early return left out
IsEmpty_never(acc) == FALSE

\* processor.accumulated_data.is_empty()
IsEmpty(acc) == Len(acc) = 0

\* the column lists json_vec_to_dataframe may use: schema.as_ref().unwrap_or(
\* &default_columns), the default being the first row's keys in map order
ColumnChoices(p) ==
    IF p.schema.some THEN {p.schema.cols}
    ELSE IF Len(p.accumulated_data) = 0 THEN {<<>>}
    ELSE Perms(DOMAIN p.accumulated_data[1])

Panic == "panic"

\* what is left of get_stream_results_internal once the table is materialized
ResultsOf(m, operation) ==
    IF ~m.ok THEN {Returned(FALSE, Panic, <<>>)}
    ELSE UNION {
        LET r == ApplyOperation(m.df, operation, keys) IN
        IF ~r.ok THEN {Returned(FALSE, r.err, <<>>)}
        ELSE {Returned(TRUE, "", out) : out \in DataframeToJson(r.df)}
        : keys \in GroupOrders(m.df, operation)}

\* get_stream_results_internal: every result the call may return
GetStreamResultsInternal(procs, id, operation) ==
    LET f == FindProcessor(procs, id) IN
    IF ~f.found THEN {Returned(FALSE, InvalidProcessorId, <<>>)}
    ELSE IF IsEmpty(f.p.accumulated_data) THEN {Returned(TRUE, "", <<>>)}
    ELSE UNION {ResultsOf(JsonVecToDataframe(f.p.accumulated_data, cols), operation)
                : cols \in ColumnChoices(f.p)}

\* ------------------------------------------------------------------ history
\* the history of a session nothing was submitted to
NoProgress == [sum |-> 0, last |-> 0, submitted |-> FALSE, cells |-> <<>>]

\* the history kept for a session
Progress(id) == IF id \in DOMAIN progress THEN progress[id] ELSE NoProgress

\* the rows of a parsed chunk, each a map from column name to the parsed cell
ParsedRows(df) ==
    [r \in 1..Height(df) |->
        [name \in {df[c].name : c \in 1..Len(df)} |->
            df[CHOOSE c \in 1..Len(df) : df[c].name = name].values[r]]]

\* ------------------------------------------------------------------ actions
\* processor_id and the descriptor are first read under the store lock, so a
\* call binds them in its locked step.
InCreate(t) == pc[t] \in {"c_counter", "c_body"}

Handles == HandlesUpTo(env.maxHandle)

History == <<issued, progress, prevGet, env>>

Idle(t) == ~crashed /\ t \in env.callers /\ pc[t] = "idle"

At(t, label) == ~crashed /\ pc[t] = label

\* the store entered without waiting for the lock
LockStore_noWait(t, from, to) ==
    /\ At(t, from)
    /\ storeLock' = t
    /\ pc' = [pc EXCEPT ![t] = to]
    /\ ret' = NoRet
    /\ UNCHANGED <<processors, next_id, counterLock, arg, crashed, issued, progress, env>>

\* STREAM_PROCESSORS.lock().unwrap() by a thread at `from`: it waits until the
\* lock is free
LockStore(t, from, to) ==
    /\ At(t, from)
    /\ storeLock = NoThread
    /\ storeLock' = t
    /\ pc' = [pc EXCEPT ![t] = to]
    /\ ret' = NoRet
    /\ UNCHANGED <<processors, next_id, counterLock, arg, crashed, issued, progress, env>>

\* initStreamProcessor up to NEXT_PROCESSOR_ID.lock(): the label is read, the
\* StreamProcessor built and the store locked
InitStreamProcessor(t) ==
    /\ t \in env.callers
    /\ next_id + Cardinality({u \in Threads : InCreate(u)}) <= env.maxHandle
    /\ LockStore(t, "idle", "c_counter")
    /\ UNCHANGED prevGet

\* let mut next_id = NEXT_PROCESSOR_ID.lock().unwrap()
CreateLockCounter(t) ==
    /\ At(t, "c_counter")
    /\ counterLock = NoThread
    /\ counterLock' = t
    /\ pc' = [pc EXCEPT ![t] = "c_body"]
    /\ ret' = NoRet
    /\ UNCHANGED <<processors, next_id, storeLock, arg, crashed, History>>

\* processor_id = *next_id; *next_id += 1; insert; return processor_id: both
\* guards are dropped on return
CreateBody(t) ==
    /\ At(t, "c_body")
    /\ \E label \in Labels :
        /\ processors' = Insert(processors, next_id, NewProcessor(label))
        /\ next_id' = NextId(next_id)
        /\ ret' = [NoRet EXCEPT !.op = "create", !.id = next_id, !.data = label]
        /\ issued' = Append(issued, next_id)
        /\ progress' = Insert(progress, next_id, NoProgress)
    /\ storeLock' = NoThread
    /\ counterLock' = NoThread
    /\ pc' = [pc EXCEPT ![t] = "idle"]
    /\ UNCHANGED <<arg, crashed, prevGet, env>>

\* processCSVChunk, up to STREAM_PROCESSORS.lock(): the bytes are read,
\* checked as UTF-8 and parsed; a failure returns at once
ProcessCSVChunk(t) ==
    /\ Idle(t)
    /\ \E bytes \in env.chunks :
        LET d == DecodeChunk(bytes) IN
        IF ~d.ok
        THEN /\ \E id \in Handles :
                  ret' = [NoRet EXCEPT !.op = "submit", !.id = id, !.data = bytes,
                                       !.ok = FALSE, !.err = d.err]
             /\ UNCHANGED <<pc, arg>>
        ELSE /\ pc' = [pc EXCEPT ![t] = "s_lock"]
             /\ arg' = [arg EXCEPT ![t] = [bytes |-> bytes, df |-> d.df]]
             /\ ret' = NoRet
    /\ UNCHANGED <<processors, next_id, storeLock, counterLock, crashed, History>>

\* the locked part entered without the lock
SubmitLockStore_skip(t) ==
    /\ At(t, "s_lock")
    /\ pc' = [pc EXCEPT ![t] = "s_body"]
    /\ ret' = NoRet
    /\ UNCHANGED <<processors, next_id, storeLock, counterLock, arg, crashed, History>>

\* let mut processors = STREAM_PROCESSORS.lock().unwrap()
SubmitLockStore(t) == LockStore(t, "s_lock", "s_body") /\ UNCHANGED prevGet

\* the rows a session holds, 0 for an unknown handle
StoredRows(id) ==
    IF id \in DOMAIN processors THEN Len(processors[id].accumulated_data) ELSE 0

\* the locked part of process_csv_chunk_internal
SubmitBody(t) ==
    /\ At(t, "s_body")
    /\ \E id \in Handles :
        LET df == arg[t].df
            r == ProcessChunk(processors, id, df)
            called == [NoRet EXCEPT !.op = "submit", !.id = id, !.data = arg[t].bytes]
        IN /\ StoredRows(id) + Height(df) <= env.maxRows
           /\ processors' = r.procs
           /\ IF r.ok
              THEN /\ ret' = [called EXCEPT !.processed = Height(df),
                                            !.total = TotalAccumulated(r.procs[id]),
                                            !.prev = Progress(id).last]
                   /\ progress' = Insert(progress, id,
                                         [sum |-> Progress(id).sum + Height(df),
                                          last |-> TotalAccumulated(r.procs[id]),
                                          submitted |-> TRUE,
                                          cells |-> Progress(id).cells \o ParsedRows(df)])
              ELSE /\ ret' = [called EXCEPT !.ok = FALSE, !.err = InvalidProcessorId]
                   /\ UNCHANGED progress
    /\ storeLock' = NoThread
    /\ pc' = [pc EXCEPT ![t] = "idle"]
    /\ arg' = [arg EXCEPT ![t] = NoArg]
    /\ UNCHANGED <<next_id, counterLock, crashed, issued, prevGet, env>>

\* getStreamResults through STREAM_PROCESSORS.lock(): the descriptor is read
\* and the store locked.  Where env.repeats, the caller may repeat the call
\* that has just returned, with the same handle and descriptor; prevGet keeps
\* that call for the time of this one.
GetStreamResults(t) ==
    /\ t \in env.callers
    /\ LockStore(t, "idle", "g_body")
    /\ \E again \in (IF env.repeats /\ ret.op = "get" THEN BOOLEAN ELSE {FALSE}) :
        prevGet' = IF again
                   THEN [id |-> ret.id, operation |-> ret.data,
                         result |-> Returned(ret.ok, ret.err, ret.out)]
                   ELSE NoGet

\* the locked part of get_stream_results_internal.  In a repeated call
\* ret.again is set and ret.was is what the call before returned.
GetBody(t) ==
    /\ At(t, "g_body")
    /\ \E id \in Handles, operation \in env.operations :
        \E r \in GetStreamResultsInternal(processors, id, operation) :
            /\ prevGet # NoGet => id = prevGet.id /\ operation = prevGet.operation
            /\ processors' = StoreAfterGet(processors, id)
            /\ IF r.err = Panic
               THEN /\ crashed' = TRUE
                    /\ ret' = NoRet
                    /\ UNCHANGED <<storeLock, pc, prevGet>>
               ELSE /\ ret' = [NoRet EXCEPT !.op = "get", !.id = id, !.data = operation,
                                   !.ok = r.ok, !.err = r.err, !.out = r.out,
                                   !.again = prevGet # NoGet,
                                   !.was = prevGet.result]
                    /\ prevGet' = NoGet
                    /\ storeLock' = NoThread
                    /\ pc' = [pc EXCEPT ![t] = "idle"]
                    /\ UNCHANGED crashed
    /\ UNCHANGED <<next_id, counterLock, arg, issued, progress, env>>

\* closeStreamProcessor through STREAM_PROCESSORS.lock()
CloseStreamProcessor(t) ==
    /\ t \in env.callers
    /\ LockStore(t, "idle", "x_body")
    /\ UNCHANGED prevGet

\* processors.remove(&processor_id)
CloseBody(t) ==
    /\ At(t, "x_body")
    /\ \E id \in Handles :
        /\ processors' = Remove(processors, id)
        /\ progress' = Remove(progress, id)
        /\ ret' = [NoRet EXCEPT !.op = "close", !.id = id]
    /\ storeLock' = NoThread
    /\ pc' = [pc EXCEPT ![t] = "idle"]
    /\ UNCHANGED <<next_id, counterLock, arg, crashed, issued, prevGet, env>>

Next ==
    \E t \in Threads :
        \/ InitStreamProcessor(t)
        \/ CreateLockCounter(t)
        \/ CreateBody(t)
        \/ ProcessCSVChunk(t)
        \/ SubmitLockStore(t)
        \/ SubmitBody(t)
        \/ GetStreamResults(t)
        \/ GetBody(t)
        \/ CloseStreamProcessor(t)
        \/ CloseBody(t)

Spec == Init /\ [][Next]_vars

SpecSeq == InitSeq /\ [][Next]_vars

SpecData == InitData /\ [][Next]_vars

SpecAppend == InitAppend /\ [][Next]_vars

\* the steps of a call that holds every lock it needs: the thread runs on
Proceed(t) ==
    CreateLockCounter(t) \/ CreateBody(t) \/ SubmitBody(t) \/ GetBody(t) \/ CloseBody(t)

\* the states in which Proceed(t) can be taken: the thread is inside a locked
\* body, or holds the store and the counter is free
Running(t) ==
    /\ ~crashed
    /\ \/ pc[t] \in {"c_body", "s_body", "g_body", "x_body"}
       \/ pc[t] = "c_counter" /\ storeLock = t /\ counterLock = NoThread

\* two threads calling concurrently under a fair scheduler: a running thread
\* keeps running (weak fairness of Proceed, its enabling condition written
\* out as Running), and a thread waiting for the store gets it when the store
\* is released again and again (strong fairness of the acquisition)
SpecFair ==
    /\ InitFair
    /\ [][Next]_vars
    /\ \A t \in Threads :
          /\ []<>(~Running(t)) \/ []<><<Proceed(t)>>_vars
          /\ SF_vars(SubmitLockStore(t))

\* ------------------------------------------------------------------- claims
Live == DOMAIN processors

Issued == {issued[i] : i \in 1..Len(issued)}

Rows(h) == processors[h].accumulated_data

\* C1: the handles returned by create are 1, 2, 3, ... in the order the
\* creates take the store lock (so each is greater than all before it and none
\* is returned twice, closed or not), only returned handles are in the store,
\* and the session a create has just inserted has no rows and no schema.
HandlesCountUp ==
    /\ \A i \in 1..Len(issued) : issued[i] = i
    /\ Live \subseteq Issued
    /\ ret.op = "create" =>
        /\ ret.id = issued[Len(issued)]
        /\ ret.id \in Live
        /\ Rows(ret.id) = <<>>
        /\ ~processors[ret.id].schema.some

\* a second handle is returned after the first session was closed
HandlesCountUpWitness ==
    /\ ret.op = "create"
    /\ ret.id = 2
    /\ 1 \notin Live

\* C2: the total_accumulated a successful submit_chunk returns is no less
\* than the one the session returned before, is the sum of the processed_rows
\* of the session's successful submits so far, and is the number of rows the
\* session holds.
AccumulationMonotone ==
    (ret.op = "submit" /\ ret.ok) =>
        /\ ret.total >= ret.prev
        /\ ret.total = Progress(ret.id).sum
        /\ ret.total = Len(Rows(ret.id))

\* a second submit that adds rows to a session that has some
AccumulationMonotoneWitness ==
    /\ ret.op = "submit"
    /\ ret.ok
    /\ ret.prev >= 1
    /\ ret.processed >= 1

\* the header line of a chunk, split at the commas
HeaderOf(bytes) == Split(Split(bytes, "\n")[1], ",")

\* the number of data lines of a chunk
DataLines(bytes) == Len(TextLines(bytes)) - 1

\* C3: a submit_chunk that fails leaves the store as it was, so the target
\* session keeps its rows and its schema; and the rows of a session change
\* only by a successful submit_chunk on it, which appends as many rows as the
\* chunk has data lines.
FailedSubmitChangesNothing ==
    [][/\ (ret'.op = "submit" /\ ~ret'.ok) => processors' = processors
       /\ \A h \in Live \cap DOMAIN processors' :
            processors'[h].accumulated_data # Rows(h) =>
                /\ ret'.op = "submit" /\ ret'.ok /\ ret'.id = h
                /\ Len(processors'[h].accumulated_data) = Len(Rows(h)) + DataLines(ret'.data)
                /\ SubSeq(processors'[h].accumulated_data, 1, Len(Rows(h))) = Rows(h)]_vars

\* an unparseable first chunk has left a live session without schema
FailedSubmitWitness ==
    /\ ret.op = "submit"
    /\ ~ret.ok
    /\ ret.err = "CSV parse error"
    /\ ret.id \in Live
    /\ ~processors[ret.id].schema.some

\* C4, as claimed: submit_chunk and get_stream_results on a handle that is
\* not in the store return the Invalid processor ID error, whatever the other
\* argument is.
UnknownHandleNotFound ==
    (ret.op \in {"submit", "get"} /\ ret.id \notin Live) =>
        ~ret.ok /\ ret.err = InvalidProcessorId

\* C4, amended: on a handle that is not in the store both calls return an
\* error and nothing crashes; get_stream_results returns Invalid processor ID
\* for every descriptor, submit_chunk returns it when the chunk decodes, and
\* the encoding or parse error of the chunk when it does not.
UnknownHandleError ==
    (ret.op \in {"submit", "get"} /\ ret.id \notin Live) =>
        /\ ~ret.ok
        /\ ~crashed
        /\ ret.err = IF ret.op = "submit" /\ InvalidByte \in {ret.data[i] : i \in 1..Len(ret.data)}
                     THEN "Invalid UTF-8 in chunk"
                     ELSE IF ret.op = "submit" /\ Len(ret.data) = 0
                     THEN "CSV parse error"
                     ELSE InvalidProcessorId

\* a decodable chunk submitted to a handle that was closed
UnknownHandleWitness ==
    /\ ret.op = "submit"
    /\ ret.id \in Issued \ Live
    /\ ret.err = InvalidProcessorId

\* C5: a schema that is set stays as it is while the session is in the store;
\* an unset schema becomes set only by a successful submit_chunk on that
\* session, to the header of that chunk, and the first such submit sets it.
SchemaSetOnce ==
    [][\A h \in Live \cap DOMAIN processors' :
        /\ processors[h].schema.some => processors'[h].schema = processors[h].schema
        /\ (~processors[h].schema.some /\ processors'[h].schema.some) =>
              /\ ret'.op = "submit" /\ ret'.ok /\ ret'.id = h
              /\ processors'[h].schema.cols = HeaderOf(ret'.data)
        /\ (~processors[h].schema.some /\ ret'.op = "submit" /\ ret'.ok /\ ret'.id = h) =>
              processors'[h].schema.some]_vars

\* a chunk with another header was appended and the schema is still the first
SchemaSetOnceWitness ==
    /\ ret.op = "submit"
    /\ ret.ok
    /\ processors[ret.id].schema.some
    /\ HeaderOf(ret.data) # processors[ret.id].schema.cols

\* C6: a get_results call, successful or not, leaves the handles of the
\* store, every session and the handle counter as they were.
GetResultsReadOnly ==
    [][ret'.op = "get" => processors' = processors /\ next_id' = next_id]_vars

\* a get_results that failed in the engine on a session with rows
GetResultsReadOnlyWitness ==
    /\ ret.op = "get"
    /\ ~ret.ok
    /\ ret.id \in Live
    /\ Len(Rows(ret.id)) > 0

\* a row as written, without the order of its keys
RowMap(row) == {row[i] : i \in 1..Len(row)}

\* how often a row occurs in an output
Occurrences(out, m) == Cardinality({r \in 1..Len(out) : RowMap(out[r]) = m})

SameRows(a, b) ==
    /\ Len(a) = Len(b)
    /\ \A r \in 1..Len(a) : Occurrences(a, RowMap(a[r])) = Occurrences(b, RowMap(a[r]))

SameRowsInOrder(a, b) ==
    /\ Len(a) = Len(b)
    /\ \A r \in 1..Len(a) : RowMap(a[r]) = RowMap(b[r])

CloseRemovesOnly ==
    [][/\ ret'.op = "close" =>
            /\ DOMAIN processors' = Live \ {ret'.id}
            /\ \A h \in DOMAIN processors' : processors'[h] = processors[h]
            /\ next_id' = next_id
       /\ \A h \in Issued \ Live : h \notin DOMAIN processors']_vars

\* a session was closed while a submit_chunk was waiting for the store, and
\* another session is still there
CloseRemovesOnlyWitness ==
    /\ ret.op = "close"
    /\ ret.id \in Issued \ Live
    /\ Live # {}
    /\ \E t \in Threads : pc[t] = "s_lock"

\* C9: get_stream_results on a session of the store without rows returns the
\* empty array, whatever the descriptor.
EmptySessionEmptyArray ==
    (ret.op = "get" /\ ret.id \in Live /\ Len(Rows(ret.id)) = 0) =>
        ret.ok /\ ret.out = <<>>

\* a filter on a column that does not exist, on a session that got a header
\* and no rows
EmptySessionWitness ==
    /\ ret.op = "get"
    /\ ret.data = OpFilterMissing
    /\ ret.id \in Live
    /\ processors[ret.id].schema.some
    /\ Len(Rows(ret.id)) = 0

\* C10, as claimed: a thread that is in a call holds the store lock.
LockHeldThroughout == \A t \in Threads : pc[t] # "idle" => storeLock = t

\* C10, amended: a call holds the store lock from its first access to the
\* store until it returns; submit_chunk has decoded its chunk before it takes
\* the lock; create takes the counter lock while it holds the store lock, and
\* never waits for it, because nobody holds it then.
LockDiscipline ==
    \A t \in Threads :
        /\ pc[t] \in {"c_counter", "c_body", "s_body", "g_body", "x_body"} => storeLock = t
        /\ pc[t] \in {"idle", "s_lock"} => storeLock # t
        /\ pc[t] = "c_body" <=> counterLock = t
        /\ pc[t] = "c_counter" => counterLock = NoThread

\* a decoded chunk waits for the store while a create holds it
LockDisciplineWitness ==
    \E t, u \in Threads :
        /\ pc[t] = "s_lock"
        /\ Height(arg[t].df) > 0
        /\ pc[u] = "c_counter"
        /\ storeLock = u

\* the positions at which a call reads or writes the sessions
Accessing == {"c_body", "s_body", "g_body", "x_body"}

\* C11: a step that reads or writes a session's rows or schema (the locked
\* part of create, submit_chunk, get_results or close) is taken by the thread
\* that holds the store lock, the store changes and a get_results returns only
\* in such a step, and no two threads are at such a part at the same time.
SessionAccessUnderLock ==
    /\ [](Cardinality({t \in Threads : pc[t] \in Accessing \cup {"c_counter"}}) <= 1)
    /\ [][/\ \A t \in Threads :
                (pc[t] \in Accessing /\ (pc'[t] # pc[t] \/ crashed')) => storeLock = t
          /\ (processors' # processors \/ ret'.op = "get") =>
                \E t \in Threads : pc[t] \in Accessing /\ pc'[t] = "idle" /\ storeLock = t]_vars

\* a get_results has read a session with rows while a decoded chunk of the
\* other thread waits for the store
SessionAccessWitness ==
    /\ ret.op = "get"
    /\ ret.id \in Live
    /\ Len(Rows(ret.id)) > 0
    /\ \E t \in Threads : pc[t] = "s_lock" /\ Height(arg[t].df) > 0

\* C12: a call on handle h, failed or not, leaves every other session as it
\* was, and no call ends in a panic, after which the store lock is poisoned
\* and no later call completes.
FailedCallLeavesStoreIntact ==
    [][/\ \A h \in Live :
            h # ret'.id => (h \in DOMAIN processors' /\ processors'[h] = processors[h])
       /\ ~crashed']_vars

\* the cells submitted to a session, in the order they were appended
Cells(h) == Progress(h).cells

\* the row value a parsed cell stands for: a missing cell is Null
RowValueOf(cell) ==
    IF cell.tag = "Null" THEN JNull
    ELSE IF cell.tag = "Int64" THEN JInt(cell.n)
    ELSE IF cell.tag = "Float64" THEN JFloat(cell.n)
    ELSE JString(cell.s)

\* a submitted row as the column-value pairs it should come back as
RowValuesOf(cells) == {<<name, RowValueOf(cells[name])>> : name \in DOMAIN cells}

\* C13: get_stream_results with the empty descriptor returns, for every row
\* submitted to the session, the values of its cells with their types: an
\* integer as Integer, a float as Float, a text as Text and a missing cell as
\* Null.
RoundTripPreservesCells ==
    (ret.op = "get" /\ ret.data = OpNone /\ ret.id \in Live /\ Len(Cells(ret.id)) > 0) =>
        /\ ret.ok
        /\ Len(ret.out) = Len(Cells(ret.id))
        /\ \A r \in 1..Len(ret.out) : RowMap(ret.out[r]) = RowValuesOf(Cells(ret.id)[r])

\* the filter descriptors of the callers, with the column and the threshold
\* (in tenths) they name
FilterCases ==
    {[operation |-> OpFilter, column |-> <<"v">>, threshold |-> 20],
     [operation |-> OpFilterZero, column |-> <<"v">>, threshold |-> 0]}

\* every submitted row has the column, as a number or as a missing cell
NumericOrNull(h, column) ==
    \A r \in 1..Len(Cells(h)) :
        /\ column \in DOMAIN Cells(h)[r]
        /\ Cells(h)[r][column].tag \in {"Int64", "Float64", "Null"}

\* the positions of the submitted rows whose number in the column is at least
\* the threshold, ascending; a missing cell is not a number
RowsAtLeast(h, column, threshold) ==
    Ascending({r \in 1..Len(Cells(h)) :
                  /\ Cells(h)[r][column].tag \in {"Int64", "Float64"}
                  /\ Tenths(Cells(h)[r][column]) >= threshold})

\* C14: for a session whose rows hold numbers or nothing in a column,
\* get_stream_results with filter:<column>:<threshold> returns exactly the
\* rows whose number is at least the threshold, in their order; a row whose
\* cell is Null is not among them.
FilterKeepsRowsAtLeast ==
    \A case \in FilterCases :
        (/\ ret.op = "get" /\ ret.data = case.operation
         /\ ret.id \in Live /\ Len(Cells(ret.id)) > 0
         /\ NumericOrNull(ret.id, case.column)) =>
            LET kept == RowsAtLeast(ret.id, case.column, case.threshold) IN
            /\ ret.ok
            /\ Len(ret.out) = Len(kept)
            /\ \A k \in 1..Len(ret.out) :
                   <<case.column, RowValueOf(Cells(ret.id)[kept[k]][case.column])>>
                       \in RowMap(ret.out[k])

\* the group-by descriptors of the callers, with the columns they name
GroupCases == {[operation |-> OpGroupby, group |-> <<"g">>, sum |-> <<"v">>]}

\* the value an accumulated row holds for a column, Null when it lacks the key
StoredValue(row, column) == IF column \in DOMAIN row THEN row[column] ELSE JNull

\* the values the accumulated rows hold for a column are all Integer or all
\* Float, a row without the key aside
OneNumberType(rows, column) ==
    \E tag \in {"Int", "Float"} :
        /\ \E r \in 1..Len(rows) : StoredValue(rows[r], column).tag = tag
        /\ \A r \in 1..Len(rows) : StoredValue(rows[r], column).tag \in {tag, "Null"}

\* the sum of a column over the given accumulated rows, of the column's type
GroupTotal(rows, column, members) ==
    LET amount(r) == StoredValue(rows[r], column).n
        RECURSIVE Total(_)
        Total(S) == IF S = {} THEN 0
                    ELSE LET r == CHOOSE x \in S : TRUE IN amount(r) + Total(S \ {r})
    IN IF \E r \in 1..Len(rows) : StoredValue(rows[r], column).tag = "Float"
       THEN JFloat(Total(members))
       ELSE JInt(Total(members))

\* the rows a group-by should return: one per distinct value of the group
\* column, with the sum over the rows that have that value
GroupRows(rows, group, sum) ==
    LET keys == {rows[r][group] : r \in 1..Len(rows)} IN
    {{<<group, key>>,
      <<sum, GroupTotal(rows, sum, {r \in 1..Len(rows) : rows[r][group] = key})>>}
        : key \in keys}

NoOperation == {OpNone, OpOther, OpFilterShort, OpGroupbyShort}

Materialized(h) == JsonVecToDataframe(Rows(h), processors[h].schema.cols)

\* C17: when get_results has returned for a session with rows and a schema,
\* the table it built has the schema's columns in the schema's order, each
\* with one cell per accumulated row in the order of the rows: a Null cell
\* where the row lacks the column, the row's text where it holds a text in a
\* text column; and a key that is not in the schema is in no returned row.
MaterializedFollowsSchema ==
    (/\ ret.op = "get"
     /\ ret.id \in Live /\ Len(Rows(ret.id)) > 0
     /\ processors[ret.id].schema.some) =>
        LET rows == Rows(ret.id)
            cols == processors[ret.id].schema.cols
            table == Materialized(ret.id)
        IN /\ table.ok
           /\ ColumnNames(table.df) = cols
           /\ \A c \in 1..Len(cols) :
                /\ Len(table.df[c].values) = Len(rows)
                /\ \A r \in 1..Len(rows) :
                     /\ cols[c] \notin DOMAIN rows[r] => table.df[c].values[r] = AvNull
                     /\ (cols[c] \in DOMAIN rows[r] /\ table.df[c].dtype = "Utf8") =>
                            table.df[c].values[r] = AvUtf8(rows[r][cols[c]].s)
           /\ (ret.ok /\ ret.data \in NoOperation) =>
                \A r \in 1..Len(ret.out) : \A pair \in RowMap(ret.out[r]) :
                    \E c \in 1..Len(cols) : cols[c] = pair[1]

\* a session with the schema g, v holds a row of a chunk with the header g, w
MaterializedWitness ==
    /\ ret.op = "get" /\ ret.ok /\ ret.data = OpNone
    /\ ret.id \in Live
    /\ processors[ret.id].schema.cols = << <<"g">>, <<"v">> >>
    /\ \E r \in 1..Len(Rows(ret.id)) : <<"w">> \in DOMAIN Rows(ret.id)[r]

\* C18: the counter lock is only held by a create that holds the store lock,
\* so the two locks are taken in the order store, counter and by create only;
\* and under fair scheduling every call that has started returns, with all
\* its locks released.
CallsReturn ==
    /\ [](\A t \in Threads :
            /\ counterLock = t => (storeLock = t /\ pc[t] = "c_body")
            /\ pc[t] = "idle" => (storeLock # t /\ counterLock # t))
    /\ \A t \in Threads : (pc[t] # "idle") ~> (pc[t] = "idle")

\* a decoded chunk waits for the store while a create holds both locks
CallsReturnWitness ==
    \E t, u \in Threads :
        /\ pc[t] = "s_lock"
        /\ pc[u] = "c_body"
        /\ storeLock = u
        /\ counterLock = u

\* C19: concurrent submits to one session append chunk by chunk. The step in
\* which a submit that holds the store lock finishes puts the rows of its chunk,
\* in their order within the chunk, as one block behind the rows the session
\* held when the step began, and leaves every other session as it was; and
\* from the moment a submit has taken the store lock until that step nothing
\* else changes the store. So the rows of a session are the chunks one after
\* the other in the order their submits took the lock, never interleaved.
Submitting(t) == pc[t] = "s_body" /\ storeLock = t

ChunkRows(t) == DataframeToJsonVec(arg[t].df)

ChunksAppendWhole ==
    [][/\ ret'.op = "submit" /\ ret'.ok =>
           \E t \in Threads : Submitting(t) /\ pc'[t] = "idle"
       /\ \A t \in Threads :
         Submitting(t) =>
           /\ \A u \in Threads \ {t} : pc'[u] = pc[u] \/ pc'[u] \notin Accessing
           /\ processors' # processors =>
                 /\ pc'[t] = "idle" /\ ret'.op = "submit" /\ ret'.ok
                 /\ DOMAIN processors' = Live
                 /\ \A h \in Live :
                       IF h = ret'.id
                       THEN /\ processors'[h].accumulated_data = Rows(h) \o ChunkRows(t)
                            /\ ret'.total = Len(Rows(h)) + Len(ChunkRows(t))
                       ELSE processors'[h] = processors[h]]_vars

\* a chunk of two rows has just been appended behind a row of another chunk
\* while the other thread was waiting for the store with its own chunk
ChunksAppendWitness ==
    /\ ret.op = "submit" /\ ret.ok
    /\ ret.processed = 2 /\ ret.prev = 1 /\ ret.total = 3
    /\ \E u \in Threads : pc[u] = "s_lock" /\ Height(arg[u].df) > 0

\* C20: every session in the store that holds rows has its schema set, a
\* session's schema is unset only if no submit to it has succeeded, and so a
\* get_results that materializes rows always takes its columns from the
\* schema, never from the keys of the first row.
SchemaSetWithRows ==
    \A h \in Live :
        /\ Len(Rows(h)) > 0 => processors[h].schema.some
        /\ ~processors[h].schema.some => ~Progress(h).submitted
        /\ Len(Rows(h)) > 0 =>
              ColumnChoices(processors[h]) = {processors[h].schema.cols}

\* get_results has just materialized and returned the rows of a session whose
\* schema is set
SchemaSetWitness ==
    /\ ret.op = "get" /\ ret.ok /\ ret.id \in Live
    /\ Len(Rows(ret.id)) > 0
    /\ processors[ret.id].schema.some
    /\ ret.data = OpNone
    /\ Len(ret.out) = Len(Rows(ret.id))
====
